---- MODULE Spec2Model ----
(***************************************************************************)
(* Customer account handlers of the food-order backend                     *)
(* (src/controllers/CustomerController.ts): CustomerSignUp, CustomerLogin, *)
(* CustomerVerify, RequestOtp, GetCustomerProfile, UpdateCustomerProfile.  *)
(*                                                                         *)
(* Every handler is an async function.  It runs atomically between two     *)
(* awaits on the document store or on the SMS provider, and other requests *)
(* run in between.  One action of the model is one such atomic segment.    *)
(* Awaits on calls that touch no shared state (validate, GenerateSalt,     *)
(* GeneratePassword, ValidatePassword) are folded into a segment, and a    *)
(* request arrives in the step of its first segment.                       *)
(*                                                                         *)
(* The Customer model, the DTOs and the utilities are outside the          *)
(* controller; they are modelled from their documented interface.          *)
(***************************************************************************)
EXTENDS Integers, Sequences, FiniteSets, TLC

\* ---------------------------------------------------------------- bounds
MaxRequests == 2      \* requests that arrive in one behaviour
MaxTime == 2          \* the clock runs 0..MaxTime

\* ------------------------------------------------------- input alphabets
Reqs == {1, 2}                             \* connections, requests in flight
BadEmail == <<>>                           \* fails the DTO's email rule
SignUpEmails == {<<"A", "x">>, <<"a", "X">>, <<"b">>}
\* email and password of a login
Logins == {<<<<"A", "x">>, "pw">>, <<<<"a", "x">>, "pw">>, <<<<"a", "x">>, "qq">>,
           <<BadEmail, "pw">>}
SignUpPasswords == {"pw"}
Phones == {"555"}
Otps == {1, 2}                             \* codes GenerateOtp can draw
OtpInputs == {<<"1">>, <<" ", "2", "x">>, <<"x">>}
BadName == "too-long-for-the-dto"          \* fails the DTO's length rule
\* firstName, lastName, address of a profile edit
Edits == {<<"", "", "">>, <<"n", "", "n">>, <<BadName, "n", "n">>}
NoUser == 0                                \* req.user is undefined
Users == {1}                               \* _id carried by a verified token

\* ------------------------------------------------ String.prototype.toLowerCase
LowerChar(c) ==
    CASE c = "A" -> "a"
      [] c = "B" -> "b"
      [] c = "X" -> "x"
      [] OTHER -> c

ToLowerCase(s) == [i \in DOMAIN s |-> LowerChar(s[i])]

\* ------------------------------------------------------------- parseInt
IsSpace(c) == c \in {" ", "\t", "\n"}

DigitVal(c) ==
    CASE c = "0" -> 0 [] c = "1" -> 1 [] c = "2" -> 2 [] c = "3" -> 3
      [] c = "4" -> 4 [] c = "5" -> 5 [] c = "6" -> 6 [] c = "7" -> 7
      [] c = "8" -> 8 [] c = "9" -> 9
      [] c \in {"a", "A"} -> 10 [] c \in {"b", "B"} -> 11
      [] c \in {"c", "C"} -> 12 [] c \in {"d", "D"} -> 13
      [] c \in {"e", "E"} -> 14 [] c \in {"f", "F"} -> 15
      [] OTHER -> 99

RECURSIVE SkipSpace(_)
SkipSpace(s) ==
    IF s # <<>> /\ IsSpace(Head(s)) THEN SkipSpace(Tail(s)) ELSE s

\* value of the longest prefix of s made of digits of the radix; acc is the
\* value so far, seen tells whether a digit was read
RECURSIVE Digits(_, _, _, _)
Digits(s, radix, acc, seen) ==
    IF s # <<>> /\ DigitVal(Head(s)) < radix
    THEN Digits(Tail(s), radix, radix * acc + DigitVal(Head(s)), TRUE)
    ELSE [nan |-> ~seen, val |-> acc]

\* parseInt(string): leading white space, an optional sign, an optional 0x,
\* then digits up to the first other character; NaN when no digit is found
ParseInt(s) ==
    LET t == SkipSpace(s)
        neg == t # <<>> /\ Head(t) = "-"
        u == IF t # <<>> /\ Head(t) \in {"-", "+"} THEN Tail(t) ELSE t
        hex == Len(u) >= 2 /\ u[1] = "0" /\ u[2] \in {"x", "X"}
        d == IF hex THEN Digits(Tail(Tail(u)), 16, 0, FALSE)
             ELSE Digits(u, 10, 0, FALSE)
    IN  [nan |-> d.nan, val |-> IF neg THEN 0 - d.val ELSE d.val]

\* number === parseInt(...): NaN equals nothing
StrictEq(n, p) == ~p.nan /\ p.val = n

\* ------------------------------------------------------------ documents
\* a Customer document as Customer.create stores it
CustomerDoc(id, email, password, phone, salt, otp, expiry) ==
    [_id |-> id, email |-> email, password |-> password, phone |-> phone,
     salt |-> salt, otp |-> otp, otpExpiry |-> expiry,
     firstName |-> "", lastName |-> "", address |-> "",
     verified |-> FALSE, lat |-> 0, lng |-> 0]

NoDoc == [_id |-> 0]

\* a document held by a handler: its fields and the paths it has assigned
Loaded(d) == [doc |-> d, dirty |-> {}]
NoProfile == Loaded(NoDoc)

\* profile.path = val
SetPath(p, path, val) ==
    [doc |-> [p.doc EXCEPT ![path] = val], dirty |-> p.dirty \cup {path}]

\* ---------------------------------------------------- the document store
\* Customer.findOne({email: e}): the first document with that email
FindOne(s, e) ==
    LET hits == {i \in 1..Len(s) : s[i].email = e}
    IN  IF hits = {} THEN NoDoc
        ELSE s[CHOOSE i \in hits : \A j \in hits : i <= j]

\* Customer.findById(id)
FindById(s, id) == IF id \in 1..Len(s) THEN s[id] ELSE NoDoc

\* Customer.create(d): the store assigns the _id
Create(s, d) == Append(s, [d EXCEPT !._id = Len(s) + 1])

\* profile.save(): the paths the handler assigned are written to the stored
\* document, the others are left as the store has them
Save(s, p) ==
    [s EXCEPT ![p.doc._id] =
        [f \in DOMAIN @ |-> IF f \in p.dirty THEN p.doc[f] ELSE @[f]]]

\* ------------------------------------------------------------ utilities
OtpTtl == 1
Salts == {"salt"}
GeneratePassword(password, salt) == <<salt, password>>
ValidatePassword(entered, saved) == saved[2] = entered
GenerateOtp(t, code) == [otp |-> code, expiry |-> t + OtpTtl]
GenerateSignature(payload) == [payload |-> payload]

\* class-validator on the three DTOs: the list of field errors
ValidateCreate(b) == IF b.email = BadEmail THEN <<"email">> ELSE <<>>
ValidateLogin(b) == IF b.email = BadEmail THEN <<"email">> ELSE <<>>
ValidateEdit(b) ==
    SelectSeq(<<"firstName", "lastName", "address">>, LAMBDA f : b[f] = BadName)

\* ------------------------------------------------------------ responses
NoResp == [status |-> 0, body |-> [none |-> TRUE]]
Json(code, b) == [status |-> code, body |-> b]
Message(code, m) == Json(code, [message |-> m])
Forward(e) == [status |-> 0, body |-> [next |-> e]]

TokenBody(d) ==
    [signature |-> GenerateSignature([_id |-> d._id, email |-> d.email,
                                      verified |-> d.verified]),
     verified |-> d.verified, email |-> d.email]

\* req.body, the fields a route does not read left blank
Body(email, password, phone, otp, firstName, lastName, address) ==
    [email |-> email, password |-> password, phone |-> phone, otp |-> otp,
     firstName |-> firstName, lastName |-> lastName, address |-> address]
NoBody == Body(<<>>, "", "", <<>>, "", "", "")

VARIABLES
    store,     \* the Customer collection, in _id order
    sms,       \* what SendOtp has delivered, in order
    now,       \* the clock new Date() reads
    arrived,   \* requests received so far
    pc,        \* where each request's handler stands
    kind,      \* the handler serving the request
    body,      \* req.body
    user,      \* req.user._id, NoUser when the middleware set none
    doc,       \* the handler's local document (profile, customer)
    date,      \* the value of new Date() in CustomerVerify
    resp       \* the response sent, NoResp while none

vars == <<store, sms, now, arrived, pc, kind, body, user, doc, date, resp>>

\* connection r has no request in flight
Free(r) == pc[r] \in {"idle", "done"}

\* a request reaches its handler, on the first free connection
Receive(r, k, b, u) ==
    /\ Free(r)
    /\ \A q \in Reqs : Free(q) => r <= q
    /\ arrived < MaxRequests
    /\ arrived' = arrived + 1
    /\ kind' = [kind EXCEPT ![r] = k]
    /\ body' = [body EXCEPT ![r] = b]
    /\ user' = [user EXCEPT ![r] = u]

\* res.status(..).json(..) or next(e): the handler returns, its locals go
Reply(r, answer) ==
    /\ resp' = [resp EXCEPT ![r] = answer]
    /\ pc' = [pc EXCEPT ![r] = "done"]
    /\ doc' = [doc EXCEPT ![r] = NoProfile]
    /\ date' = [date EXCEPT ![r] = 0]

\* the handler awaits the next call; nothing is answered yet
Goto(r, label) ==
    /\ pc' = [pc EXCEPT ![r] = label]
    /\ resp' = [resp EXCEPT ![r] = NoResp]
    /\ UNCHANGED <<doc, date>>

\* the handler awaits the next call, holding document p and date t
Hold(r, label, p, t) ==
    /\ pc' = [pc EXCEPT ![r] = label]
    /\ doc' = [doc EXCEPT ![r] = p]
    /\ date' = [date EXCEPT ![r] = t]
    /\ resp' = [resp EXCEPT ![r] = NoResp]

\* ------------------------------------------------------- CustomerSignUp
\* a lookup that forgets to lowercase the email
SignUpFilterRaw(email) == email

\* the filter of the duplicate lookup
SignUpFilter(email) == ToLowerCase(email)

\* a creation that stores the email as submitted
SignUpDocumentRaw(b, salt, hash, g) ==
    CustomerDoc(0, b.email, hash, b.phone, salt, g.otp, g.expiry)

\* the document handed to Customer.create
SignUpDocument(b, salt, hash, g) ==
    CustomerDoc(0, ToLowerCase(b.email), hash, b.phone, salt, g.otp, g.expiry)

\* plainToClass + validate; invalid input is answered with the field errors
SignUpValidate(r) ==
    /\ \E e \in SignUpEmails \cup {BadEmail}, p \in SignUpPasswords, ph \in Phones :
          Receive(r, "signup", Body(e, p, ph, <<>>, "", "", ""), NoUser)
    /\ IF ValidateCreate(body'[r]) # <<>>
       THEN Reply(r, Json(400, [errors |-> ValidateCreate(body'[r])]))
       ELSE Goto(r, "find")
    /\ UNCHANGED <<store, sms, now>>

\* Customer.findOne by the lowercased email resolves
SignUpFind(r) ==
    /\ pc[r] = "find"
    /\ kind[r] = "signup"
    /\ IF FindOne(store, SignUpFilter(body[r].email)) # NoDoc
       THEN Reply(r, Message(400, "This email address is already in use!"))
       ELSE Goto(r, "hash")
    /\ UNCHANGED <<store, sms, now, arrived, kind, body, user>>

\* GenerateSalt, GeneratePassword and GenerateOtp; Customer.create is issued
SignUpHash(r) ==
    /\ pc[r] = "hash"
    /\ \E salt \in Salts, code \in Otps :
          Hold(r, "create",
               Loaded(SignUpDocument(body[r], salt,
                                     GeneratePassword(body[r].password, salt),
                                     GenerateOtp(now, code))), 0)
    /\ UNCHANGED <<store, sms, now, arrived, kind, body, user>>

\* Customer.create takes effect and resolves with the created document
SignUpCreate(r) ==
    /\ pc[r] = "create"
    /\ store' = Create(store, doc[r].doc)
    /\ LET createdCustomer == store'[Len(store')]
       IN  IF createdCustomer # NoDoc
           THEN Hold(r, "send", Loaded(createdCustomer), 0)
           ELSE Reply(r, Message(400, "Error while signing up!"))
    /\ UNCHANGED <<sms, now, arrived, kind, body, user>>

\* SendOtp resolves; the token is signed and the 201 sent
SignUpSend(r) ==
    /\ pc[r] = "send"
    /\ kind[r] = "signup"
    /\ sms' = Append(sms, [otp |-> doc[r].doc.otp, phone |-> body[r].phone])
    /\ Reply(r, Json(201, TokenBody(doc[r].doc)))
    /\ UNCHANGED <<store, now, arrived, kind, body, user>>

\* a catch block that removes the record it created before forwarding
SignUpSendFailRollback(r) ==
    /\ pc[r] = "send"
    /\ kind[r] = "signup"
    /\ store' = SelectSeq(store, LAMBDA c : c._id # doc[r].doc._id)
    /\ Reply(r, Forward("SendOtp"))
    /\ UNCHANGED <<sms, now, arrived, kind, body, user>>

\* SendOtp rejects: the catch block logs and calls next(e)
SignUpSendFail(r) ==
    /\ pc[r] = "send"
    /\ kind[r] = "signup"
    /\ Reply(r, Forward("SendOtp"))
    /\ UNCHANGED <<store, sms, now, arrived, kind, body, user>>

\* -------------------------------------------------------- CustomerLogin
\* the filter of the lookup: the email as submitted
LoginFilter(email) == email

LoginValidate(r) ==
    /\ \E l \in Logins :
          Receive(r, "login", Body(l[1], l[2], "", <<>>, "", "", ""), NoUser)
    /\ IF ValidateLogin(body'[r]) # <<>>
       THEN Reply(r, Json(400, [errors |-> ValidateLogin(body'[r])]))
       ELSE Goto(r, "find")
    /\ UNCHANGED <<store, sms, now>>

\* Customer.findOne resolves; ValidatePassword; the token or the refusal
LoginFind(r) ==
    /\ pc[r] = "find"
    /\ kind[r] = "login"
    /\ LET customer == FindOne(store, LoginFilter(body[r].email))
       IN  IF customer # NoDoc
              /\ ValidatePassword(body[r].password, customer.password)
           THEN Reply(r, Json(200, TokenBody(customer)))
           ELSE Reply(r, Message(400, "Invalid credentials!"))
    /\ UNCHANGED <<store, sms, now, arrived, kind, body, user>>

\* ------------------------------------------------------- CustomerVerify
\* a condition that refuses the code at the instant of its expiry
VerifyAcceptsStrict(profile, otp, t) ==
    /\ profile # NoDoc
    /\ StrictEq(profile.otp, ParseInt(otp))
    /\ profile.otpExpiry > t

\* the condition of the if: the profile exists, the code matches, not expired
VerifyAccepts(profile, otp, t) ==
    /\ profile # NoDoc
    /\ StrictEq(profile.otp, ParseInt(otp))
    /\ profile.otpExpiry >= t

\* profile.verified = true
VerifyAssign(p) == SetPath(p, "verified", TRUE)

\* Customer.findById resolves and the condition is evaluated
VerifyFind(r) ==
    /\ \E u \in Users \cup {NoUser}, o \in OtpInputs :
          Receive(r, "verify", Body(<<>>, "", "", o, "", "", ""), u)
    /\ LET profile == IF user'[r] = NoUser THEN NoDoc
                      ELSE FindById(store, user'[r])
       IN  IF user'[r] # NoUser /\ VerifyAccepts(profile, body'[r].otp, now)
           THEN Hold(r, "save", VerifyAssign(Loaded(profile)), now)
           ELSE Reply(r, Message(400, "OPT verification failed!"))
    /\ UNCHANGED <<store, sms, now>>

\* profile.save resolves; the token is signed from the saved document
VerifySave(r) ==
    /\ pc[r] = "save"
    /\ kind[r] = "verify"
    /\ store' = Save(store, doc[r])
    /\ Reply(r, Json(200, TokenBody(doc[r].doc)))
    /\ UNCHANGED <<sms, now, arrived, kind, body, user>>

\* ----------------------------------------------------------- RequestOtp
\* a reissue that also asks for a new verification
RequestOtpAssignReset(p, g) ==
    SetPath(SetPath(SetPath(p, "otp", g.otp), "otpExpiry", g.expiry),
            "verified", FALSE)

\* profile.otp = otp; profile.otpExpiry = expiry
RequestOtpAssign(p, g) ==
    SetPath(SetPath(p, "otp", g.otp), "otpExpiry", g.expiry)

\* Customer.findById resolves; a new code is drawn and put on the profile
RequestOtpFind(r) ==
    /\ \E u \in Users \cup {NoUser} : Receive(r, "otp", NoBody, u)
    /\ LET profile == IF user'[r] = NoUser THEN NoDoc
                      ELSE FindById(store, user'[r])
       IN  IF profile # NoDoc
           THEN \E code \in Otps :
                   Hold(r, "save",
                        RequestOtpAssign(Loaded(profile), GenerateOtp(now, code)),
                        0)
           ELSE Reply(r, Message(400, "Error generateing OTP!"))
    /\ UNCHANGED <<store, sms, now>>

\* profile.save resolves
RequestOtpSave(r) ==
    /\ pc[r] = "save"
    /\ kind[r] = "otp"
    /\ store' = Save(store, doc[r])
    /\ Goto(r, "send")
    /\ UNCHANGED <<sms, now, arrived, kind, body, user>>

\* SendOtp resolves
RequestOtpSend(r) ==
    /\ pc[r] = "send"
    /\ kind[r] = "otp"
    /\ sms' = Append(sms, [otp |-> doc[r].doc.otp, phone |-> doc[r].doc.phone])
    /\ Reply(r, Message(200, "OTP sent to your registered phone number."))
    /\ UNCHANGED <<store, now, arrived, kind, body, user>>

\* --------------------------------------------------- GetCustomerProfile
GetCustomerProfile(r) ==
    /\ \E u \in Users \cup {NoUser} : Receive(r, "profile", NoBody, u)
    /\ LET profile == IF user'[r] = NoUser THEN NoDoc
                      ELSE FindById(store, user'[r])
       IN  IF profile # NoDoc
           THEN Reply(r, Json(200, profile))
           ELSE Reply(r, Message(400, "Error getting user profile!"))
    /\ UNCHANGED <<store, sms, now>>

\* ------------------------------------------------ UpdateCustomerProfile
\* an update that keeps the old value where the submitted one is empty
UpdateAssignMerge(p, b) ==
    LET keep(q, f) == IF b[f] = "" THEN q ELSE SetPath(q, f, b[f])
    IN  keep(keep(keep(p, "firstName"), "lastName"), "address")

\* profile.firstName = firstName; .lastName = lastName; .address = address
UpdateAssign(p, b) ==
    SetPath(SetPath(SetPath(p, "firstName", b.firstName),
                    "lastName", b.lastName),
            "address", b.address)

\* Customer.findById resolves; the input is validated and assigned
UpdateFind(r) ==
    /\ \E u \in Users \cup {NoUser}, e \in Edits :
          Receive(r, "update", Body(<<>>, "", "", <<>>, e[1], e[2], e[3]), u)
    /\ LET profile == IF user'[r] = NoUser THEN NoDoc
                      ELSE FindById(store, user'[r])
       IN  IF profile = NoDoc
           THEN Reply(r, Message(400, "Error updating profile!"))
           ELSE IF ValidateEdit(body'[r]) # <<>>
           THEN Reply(r, Json(400, [errors |-> ValidateEdit(body'[r])]))
           ELSE Hold(r, "save", UpdateAssign(Loaded(profile), body'[r]), 0)
    /\ UNCHANGED <<store, sms, now>>

\* profile.save resolves; the saved document is returned
UpdateSave(r) ==
    /\ pc[r] = "save"
    /\ kind[r] = "update"
    /\ store' = Save(store, doc[r])
    /\ Reply(r, Json(200, doc[r].doc))
    /\ UNCHANGED <<sms, now, arrived, kind, body, user>>

\* ---------------------------------------------------------- environment
\* time passes
Tick ==
    /\ now < MaxTime
    /\ now' = now + 1
    /\ UNCHANGED <<store, sms, arrived, pc, kind, body, user, doc, date, resp>>

\* the collection as earlier signups have left it: empty, or holding the
\* account that a signup with "Ax" created at time 0 (its code sent by SMS)
Registered ==
    [SignUpDocument(Body(<<"A", "x">>, "pw", "555", <<>>, "", "", ""), "salt",
                    GeneratePassword("pw", "salt"), GenerateOtp(0, 1))
        EXCEPT !._id = 1]

Init ==
    /\ \/ store = <<>> /\ sms = <<>>
       \/ store = <<Registered>> /\ sms = <<[otp |-> 1, phone |-> "555"]>>
    /\ now = 0
    /\ arrived = 0
    /\ pc = [r \in Reqs |-> "idle"]
    /\ kind = [r \in Reqs |-> "none"]
    /\ body = [r \in Reqs |-> NoBody]
    /\ user = [r \in Reqs |-> NoUser]
    /\ doc = [r \in Reqs |-> NoProfile]
    /\ date = [r \in Reqs |-> 0]
    /\ resp = [r \in Reqs |-> NoResp]

Next ==
    \/ \E r \in Reqs :
          \/ SignUpValidate(r) \/ SignUpFind(r) \/ SignUpHash(r)
          \/ SignUpCreate(r) \/ SignUpSend(r)
          \/ LoginValidate(r) \/ LoginFind(r)
          \/ VerifyFind(r) \/ VerifySave(r)
          \/ RequestOtpFind(r) \/ RequestOtpSave(r) \/ RequestOtpSend(r)
          \/ GetCustomerProfile(r)
          \/ UpdateFind(r) \/ UpdateSave(r)
    \/ Tick

\* the collaborators answer
Spec == Init /\ [][Next]_vars

\* the SMS provider may reject a send during signup
NextSms == Next \/ \E r \in Reqs : SignUpSendFail(r)

SpecSms == Init /\ [][NextSms]_vars


\* =====================================================================
\* Properties
\* =====================================================================
\* the step is the arrival of a request on connection r
Arrives(r) ==
    /\ arrived' # arrived
    /\ Free(r)
    /\ \A q \in Reqs : Free(q) => r <= q

\* the step takes the handler of connection r from one label to another
Moves(r, from, to) == pc[r] = from /\ pc'[r] = to /\ arrived' = arrived

\* the step takes the handler of connection r away from a label
Leaves(r, from) == pc[r] = from /\ pc'[r] # from

Ids == 1..Len(store)

\* equal up to the case of the letters
EqIgnoreCase(a, b) ==
    /\ Len(a) = Len(b)
    /\ \A i \in 1..Len(a) : LowerChar(a[i]) = LowerChar(b[i])

HasToken(answer) == "signature" \in DOMAIN answer.body

\* the document req.user points to, as the store holds it
Profile(u) == IF u = NoUser THEN NoDoc ELSE FindById(store, u)

\* C1: no two Customer records have the same email, whatever the
\* interleaving of the CustomerSignUp requests
C1_EmailUnique ==
    \A i \in Ids, j \in Ids : i # j => store[i].email # store[j].email

\* C2: a valid CustomerSignUp whose email equals, up to case, the email of a
\* stored record is answered 400, creates no record, sends no code and
\* issues no token
C2_DuplicateRefused ==
    [][\A r \in Reqs :
          (/\ kind[r] = "signup"
           /\ Leaves(r, "find")
           /\ \E i \in Ids : EqIgnoreCase(store[i].email, body[r].email))
          => /\ pc'[r] = "done"
             /\ resp'[r].status = 400
             /\ ~HasToken(resp'[r])
             /\ store' = store
             /\ sms' = sms]_vars

C2_Witness ==
    \E r \in Reqs :
       /\ kind[r] = "signup" /\ pc[r] = "done"
       /\ body[r].email = <<"a", "X">>
       /\ resp[r] = Message(400, "This email address is already in use!")
       /\ \E i \in Ids : store[i].email = <<"a", "x">>

\* the condition C3 states, on the profile the store holds
C3_Matches(r) ==
    LET p == Profile(user'[r])
    IN  StrictEq(p.otp, ParseInt(body'[r].otp)) /\ now <= p.otpExpiry

\* what C3 says of every outcome but the refusal's effect on verified
C3_Decision(r) ==
    /\ (Arrives(r) /\ kind'[r] = "verify" /\ Profile(user'[r]) # NoDoc)
       => /\ store' = store
          /\ IF C3_Matches(r) THEN pc'[r] = "save"
             ELSE /\ pc'[r] = "done"
                  /\ resp'[r] = Message(400, "OPT verification failed!")
    /\ (kind[r] = "verify" /\ Leaves(r, "save"))
       => /\ pc'[r] = "done"
          /\ resp'[r].status = 200
          /\ store'[user[r]].verified

\* C3 as stated: CustomerVerify answers 200 and sets verified exactly when
\* the parsed code equals the stored one and the expiry has not passed;
\* otherwise it answers 400 and the stored verified flag remains false
C3_Original ==
    [][\A r \in Reqs :
          /\ C3_Decision(r)
          /\ (/\ Arrives(r) /\ kind'[r] = "verify"
              /\ Profile(user'[r]) # NoDoc /\ ~C3_Matches(r))
             => ~store'[user'[r]].verified]_vars

\* C3 as amended: CustomerVerify answers 200 and sets verified exactly when
\* the parsed code equals the stored one and the expiry has not passed;
\* otherwise it answers 400 and writes nothing, so that the stored verified
\* flag keeps the value it had
C3_VerifyDecision ==
    [][\A r \in Reqs :
          /\ C3_Decision(r)
          /\ (/\ Arrives(r) /\ kind'[r] = "verify"
              /\ Profile(user'[r]) # NoDoc /\ ~C3_Matches(r))
             => store'[user'[r]].verified = store[user'[r]].verified]_vars

\* a refused CustomerVerify on a profile that is verified already
C3_Witness ==
    \E r \in Reqs :
       /\ kind[r] = "verify" /\ pc[r] = "done"
       /\ resp[r] = Message(400, "OPT verification failed!")
       /\ user[r] \in Ids
       /\ store[user[r]].verified

\* C4: verified is false at creation, becomes true only by the save of a
\* CustomerVerify whose code matched before the expiry, and never goes back
\* to false, whatever the requests and their interleaving
C4_VerifiedOnce ==
    [][\A i \in 1..Len(store') :
          IF i \notin Ids THEN ~store'[i].verified
          ELSE /\ store[i].verified => store'[i].verified
               /\ (~store[i].verified /\ store'[i].verified)
                  => \E r \in Reqs :
                        /\ kind[r] = "verify" /\ Moves(r, "save", "done")
                        /\ user[r] = i
                        /\ StrictEq(doc[r].doc.otp, ParseInt(body[r].otp))
                        /\ date[r] <= doc[r].doc.otpExpiry]_vars

\* an update that loaded the profile before it was verified has saved after
C4_Witness ==
    \E r \in Reqs :
       /\ kind[r] = "update" /\ pc[r] = "done"
       /\ resp[r].status = 200
       /\ ~resp[r].body.verified
       /\ store[user[r]].verified

\* C5: once a CustomerVerify has succeeded for a customer, a further
\* CustomerVerify for that customer is refused with 400
C5_ReverifyRefused ==
    [][\A r \in Reqs :
          (/\ Arrives(r) /\ kind'[r] = "verify"
           /\ Profile(user'[r]) # NoDoc
           /\ Profile(user'[r]).verified)
          => /\ pc'[r] = "done"
             /\ resp'[r] = Message(400, "OPT verification failed!")]_vars

\* C6: CustomerLogin with the email and password a customer signed up with
\* answers 200 with a token carrying the stored email and verified; with a
\* wrong password or an unknown email it answers 400 "Invalid credentials!";
\* the store is left as it was
C6_LoginAccepts ==
    [][\A r \in Reqs :
          (kind[r] = "login" /\ Leaves(r, "find"))
          => /\ store' = store
             /\ \A q \in Reqs \ {r} :
                   (/\ kind[q] = "signup" /\ pc[q] = "done"
                    /\ resp[q].status = 201
                    /\ body[r].email = body[q].email
                    /\ body[r].password = body[q].password)
                   => /\ resp'[r].status = 200
                      /\ LET t == resp'[r].body.signature.payload
                         IN  /\ t.email = store[t._id].email
                             /\ t.verified = store[t._id].verified
             /\ (\/ \A i \in Ids : store[i].email # body[r].email
                 \/ \A i \in Ids : store[i].email = body[r].email =>
                        ~ValidatePassword(body[r].password, store[i].password))
                => resp'[r] = Message(400, "Invalid credentials!")]_vars

C8_UpdateFrame ==
    [][\A r \in Reqs :
          /\ (Arrives(r) /\ kind'[r] = "update")
             => /\ store' = store
                /\ IF \/ Profile(user'[r]) = NoDoc
                      \/ \E f \in {"firstName", "lastName", "address"} :
                            body'[r][f] = BadName
                   THEN pc'[r] = "done" /\ resp'[r].status = 400
                   ELSE pc'[r] = "save"
          /\ (kind[r] = "update" /\ Leaves(r, "save"))
             => /\ pc'[r] = "done"
                /\ resp'[r].status = 200
                /\ store' = [store EXCEPT
                               ![user[r]].firstName = body[r].firstName,
                               ![user[r]].lastName = body[r].lastName,
                               ![user[r]].address = body[r].address]]_vars

\* names set by one update have been overwritten with empty strings by the
\* next, a second record standing by
C8_Witness ==
    \E r \in Reqs, q \in Reqs :
       /\ kind[r] = "update" /\ pc[r] = "done" /\ resp[r].status = 200
       /\ kind[q] = "update" /\ pc[q] = "done" /\ resp[q].status = 200
       /\ body[q].firstName = "n" /\ body[r].firstName = ""
       /\ store[user[r]].firstName = "" /\ store[user[r]].address = ""

\* C9: a successful RequestOtp stores the new code and expiry before the SMS
\* is sent and leaves verified alone, and once it has answered 200 a
\* CustomerVerify succeeds with the new code only, also one that loaded the
\* profile before
C9_OnlyNewCode ==
    [][\A q \in Reqs :
          /\ (kind[q] = "otp" /\ Leaves(q, "save"))
             => /\ pc'[q] = "send"
                /\ sms' = sms
                /\ store' = [store EXCEPT
                               ![user[q]].otp = doc[q].doc.otp,
                               ![user[q]].otpExpiry = doc[q].doc.otpExpiry]
          /\ \A r \in Reqs \ {q} :
                (/\ kind[q] = "otp" /\ pc[q] = "done" /\ resp[q].status = 200
                 /\ kind[r] = "verify" /\ user[r] = user[q]
                 /\ Moves(r, "save", "done") /\ resp'[r].status = 200)
                => StrictEq(store[user[q]].otp, ParseInt(body[r].otp))]_vars

\* the signup on connection q has ended in next(e)
Forwarded(q) ==
    kind[q] = "signup" /\ pc[q] = "done" /\ "next" \in DOMAIN resp[q].body

\* C10: CustomerSignUp creates the record before SendOtp and never removes
\* it: when SendOtp fails the error goes to next(e), no 201 and no token are
\* produced, the record stays in the store as created, and a repeated signup
\* with that email is answered with the 400 of a duplicate
C10_NoRollback ==
    [][\A r \in Reqs :
          kind[r] = "signup" =>
          /\ Leaves(r, "create")
             => /\ sms' = sms
                /\ Len(store') = Len(store) + 1
                /\ ~store'[Len(store')].verified
          /\ (Leaves(r, "send") /\ sms' = sms)
             => /\ Forwarded(r)'
                /\ resp'[r].status # 201 /\ ~HasToken(resp'[r])
                /\ store' = store
                /\ doc[r].doc._id \in Ids
                /\ store[doc[r].doc._id].email = ToLowerCase(body[r].email)
                /\ ~doc[r].doc.verified
          /\ \A q \in Reqs \ {r} :
                (/\ Forwarded(q) /\ Leaves(r, "find")
                 /\ EqIgnoreCase(body[r].email, body[q].email))
                => /\ resp'[r] = Message(400, "This email address is already in use!")
                   /\ store' = store]_vars

C10_Witness ==
    \E r \in Reqs, q \in Reqs :
       /\ Forwarded(q)
       /\ \E i \in Ids : store[i].email = ToLowerCase(body[q].email)
       /\ kind[r] = "signup" /\ pc[r] = "done" /\ r # q
       /\ EqIgnoreCase(body[r].email, body[q].email)
       /\ resp[r] = Message(400, "This email address is already in use!")

====
